---------------------------- MODULE Spec2Model ----------------------------
(***************************************************************************)
(* SMODERP2D: the Philip infiltration pass, the closing mass balance and   *)
(* reach table of BaseProvider.postprocessing, and the critical water      *)
(* level of the NoGis provider.                                            *)
(*                                                                         *)
(* Grids are flattened: a grid is a function from the cell index to the    *)
(* cell's value.  Water depths and volumes are integers (a fixed unit).    *)
(***************************************************************************)
EXTENDS Integers, Sequences, FiniteSets, TLC

\* ------------------------------------------------------------------ bounds
\* cells of the grid handed to philip_infiltration
NCells == 2
\* longest group table; soil ids run over 0..MaxGroups, so a cell may match no group
MaxGroups == 2
\* largest surface depth (the smallest is -1, a negative water level)
MaxDepth == 2
\* largest capacity stored in a group (z[3])
MaxCap == 2

\* step of the ramp an accumulator grid handed to postprocessing holds
MaxVol == 1
\* GridGlobals.pixel_area is 1 or MaxArea
MaxArea == 2
\* invocations of postprocessing on one final state
MaxPostRuns == 2
\* reaches in the stream mapping
MaxReaches == 2
\* samples recorded in a reach's V_out_cum and Q_max arrays
NSamp == 3
\* largest base value of a sample array
MaxVal == 1

\* cells of the grid handed to _get_crit_water
NCritCells == 1
\* largest slope
MaxSlope == 2
\* the critical shear is a multiple, up to MaxTau, of 98.07 * SlopeLcm
MaxTau == 2
\* largest value np.power returns
MaxPow == 3

\* cells of the grid handed to _set_combinatIndex
NCombCells == 4
\* largest conductivity (the smallest is 0)
MaxK == 1
\* largest sorptivity (the smallest is 0)
MaxS == 1

\* largest configured end time, in minutes (the smallest is 1)
MaxEndTime == 2
\* runs loaded one after the other in one process
MaxGlobRuns == 2
\* tasks OnRunButton starts one after the other
MaxTasks == 2
\* segments of a slope profile, their horizontal length and height, and the
\* pixel resolution
MaxSegments == 2
MaxLength == 4
MaxHeight == 3
MaxRes == 3

\* --------------------------------------------------------------- constants
NoDataValue == -9999
\* Globals.streams_flow_inc: states from this value on are channel states
streams_flow_inc == 1000
\* the critical depth of a cell with slope 0
HCritFlat == 1000

VARIABLES
    pc,             \* position of the operation under way
    exc,            \* the exception that ended the operation, or "none"
    combinatIndex,  \* the module-level group table: rows <<id, k, s, capacity>>
    soil,           \* philip_infiltration's argument soil (the cell's group id)
    bil_in,         \* philip_infiltration's argument bil as passed by the caller
    bil,            \* the local bil, rebound by every pass
    infiltration,   \* the local infiltration, rebound by every pass
    zi,             \* position of the for loop in combinatIndex
    table_in,       \* history: combinatIndex as it was when the call began
    active,         \* GridGlobals.rr / rc: the cells of the computation region
    pixel_area,     \* GridGlobals.pixel_area
    cumulative,     \* the accumulator: one grid per field, rewritten in place
    surface_array,  \* the surface arrays: grids state and h_total_new
    stream,         \* the stream mapping, in key order: one record per reach
    rasters,        \* the control rasters written so far, one record per invocation
    outputtable,    \* the outputtable handed to np.savetxt, <<>> while none is
    cum_in,         \* history: cumulative as it was before the first invocation
    mat_slope,      \* _get_crit_water's argument mat_slope
    mat_tau,        \* _get_crit_water's argument mat_tau
    pow_v,          \* what np.power returns for the cell at line 399
    pow_flux,       \* what np.power returns for the cell at line 401
    mat_hcrit_tau,  \* the grid of estimates from the critical shear
    mat_hcrit_v,    \* the grid of estimates from the critical velocity
    mat_hcrit_flux, \* the grid of estimates from the critical flux
    mat_hcrit,      \* the grid of adopted critical depths
    phil_k,         \* phlilip's argument k, in 1e-6 m/s
    phil_s,         \* phlilip's argument s, in 1e-6 m/s^0.5
    phil_dt,        \* phlilip's argument deltaT, in s
    phil_t,         \* phlilip's argument totalT, in s
    phil_ret,       \* what phlilip returned, in 1e-6 m
    mat_k,          \* _set_combinatIndex's argument mat_k
    mat_s,          \* _set_combinatIndex's argument mat_s
    sci_cell,       \* position of the loops over i and j, row by row
    combinat,       \* the local list of the pairs [k, s] seen so far
    data_combinatIndex, \* the local combinatIndex, returned into data
    mat_inf_index,  \* the grid of group ids, returned into data
    workflow_mode,  \* the provider's workflow mode
    invalid_is_error, \* whether DataPreparationInvalidInput derives from DataPreparationError
    load_fault,     \* what the provider's data loading raises, or "none"
    runoff_fault,   \* what the computation raises when it is not aborted, or "none"
    save_fault,     \* what saving the output raises, or "none"
    aborted,        \* Logger.aborted
    progress,       \* the arguments of Logger.set_progress, in call order
    calls,          \* the calls Runner.run has made, in call order
    load_exc,       \* history: the exception that left provider.load, or "none"
    raised,         \* history: the exception that left Runner.run, or "none"
    run_ret,        \* what Runner.run returned, "unset" while it has not
    task_ret,       \* what SmoderpTask.run returned, "unset" while it has not
    task_error,     \* SmoderpTask's self.error
    load_calls,     \* the calls provider.load has made, in call order
    saved_data,     \* the keys of the data _save_data has written, {} while none
    ctor_fault,     \* what the QGISRunner constructor raises, or "none"
    runner,         \* SmoderpTask's self.runner: "None" or "QGISRunner"
    message,        \* what finished pushed to the message bar, <<>> while nothing
    task_no,        \* the number of the task OnRunButton has started, from 1
    last_raised,    \* history: the exception that left Runner.run in the task before
    glob_provider,  \* the provider whose load is under way: "base" (roff) or "nogis"
    glob_run,       \* the number of the run in this process, from 1
    cfg_end_time,   \* the configured end time of the run, in minutes
    cfg_type,       \* the configured type of computing of the run
    data,           \* the dict handed to _set_globals, <<>> while there is none
    Globals_end_time, \* Globals.end_time: <<>> for None, <<x>> for the number x
    Globals_subflow, \* Globals.subflow
    Globals_isRill, \* Globals.isRill
    Globals_isStream, \* Globals.isStream
    joint_data,     \* the slope profile: segments <<horizontal length, height>>
    resolution,     \* the configured pixel resolution
    nr_of_rows,     \* data['r'], the value _compute_rows returned, <<>> before
    parsed_data,    \* _divide_joint_data's parsed_data: the segment of each entry
    segment_no,     \* the segment the loop of _divide_joint_data is at
    subsegment_unseen \* subsegment_unseen, in units of 1 / nr_of_rows

infVars == <<combinatIndex, soil, bil_in, bil, infiltration, zi, table_in>>
postVars == <<active, pixel_area, cumulative, surface_array, stream, rasters,
              outputtable, cum_in>>
critVars == <<mat_slope, mat_tau, pow_v, pow_flux, mat_hcrit_tau, mat_hcrit_v,
              mat_hcrit_flux, mat_hcrit>>
philVars == <<phil_k, phil_s, phil_dt, phil_t, phil_ret>>
combVars == <<mat_k, mat_s, sci_cell, combinat, data_combinatIndex, mat_inf_index>>
runVars == <<workflow_mode, invalid_is_error, load_fault, runoff_fault, save_fault,
             aborted, progress, calls, load_exc, raised, run_ret, task_ret,
             task_error, load_calls, saved_data, ctor_fault, runner, message,
             task_no, last_raised>>
globVars == <<glob_provider, glob_run, cfg_end_time, cfg_type, data,
              Globals_end_time, Globals_subflow, Globals_isRill, Globals_isStream>>
rowVars == <<joint_data, resolution, nr_of_rows, parsed_data, segment_no,
             subsegment_unseen>>
restVars == <<philVars, combVars, runVars, globVars, rowVars>>
vars == <<pc, exc, infVars, postVars, critVars, restVars>>

\* ============================================================ infiltration
Cells == 1..NCells
SoilIds == 0..MaxGroups
Depths == (-1)..MaxDepth
Caps == 0..MaxCap

\* The tables set_combinatIndex receives: n rows with the dense ids 0..n-1
\* in scan order, each with the capacity the caller stored in z[3].
GroupTables ==
    UNION { { [i \in 1..n |-> <<i - 1, 0, 0, caps[i]>>] : caps \in [1..n -> Caps] }
            : n \in 1..MaxGroups }

\* ma.all(bil < 0)
AllNegative(b) == \A c \in DOMAIN b : b[c] < 0

\* A faulty PassInfiltration: the capacity is taken whatever the depth is.
PassInfiltrationNoDepth(z, s, b, inf) ==
    [c \in DOMAIN b |-> IF s[c] = z[1] THEN z[4] ELSE inf[c]]

\* A faulty PassBil: the capacity is subtracted whatever the depth is.
PassBilNoFloor(z, s, b) ==
    [c \in DOMAIN b |-> IF s[c] = z[1] THEN b[c] - z[4] ELSE b[c]]

\* lines 27-33: infiltration = where(soil == z[0], where(z[3] > bil, bil, z[3]), infiltration)
PassInfiltration(z, s, b, inf) ==
    [c \in DOMAIN b |->
        IF s[c] = z[1]
        THEN (IF z[4] > b[c] THEN b[c] ELSE z[4])
        ELSE inf[c]]

\* lines 27, 34-38: bil = where(soil == z[0], where(z[3] > bil, 0, bil - z[3]), bil)
PassBil(z, s, b) ==
    [c \in DOMAIN b |->
        IF s[c] = z[1]
        THEN (IF z[4] > b[c] THEN 0 ELSE b[c] - z[4])
        ELSE b[c]]

\* A faulty PassCombinatIndex: the pass takes what the deepest cell of the
\* group infiltrated off the group's capacity.
PassCombinatIndexDecrement(table, i, s, b) ==
    LET z == table[i]
        taken == { IF z[4] > b[c] THEN b[c] ELSE z[4] : c \in { d \in DOMAIN b : s[d] = z[1] } }
        most == IF taken = {} THEN 0 ELSE CHOOSE t \in taken : \A u \in taken : u <= t
    IN  [table EXCEPT ![i] = <<z[1], z[2], z[3], z[4] - most>>]

\* lines 23-38: the loop body reads z and never assigns z[3] (nor any other
\* entry of combinatIndex), so the table after a pass is the table before it
PassCombinatIndex(table, i, s, b) == table

\* line 22: infiltration = combinatIndex[0][3], a scalar that the first
\* ma.where broadcasts over the grid
SeedInfiltration(table) == [c \in Cells |-> table[1][4]]

\* no infiltration call under way
IdleInf ==
    /\ combinatIndex = <<>>
    /\ soil = [c \in Cells |-> 0]
    /\ bil_in = [c \in Cells |-> 0]
    /\ bil = [c \in Cells |-> 0]
    /\ infiltration = [c \in Cells |-> 0]
    /\ zi = 0
    /\ table_in = <<>>

\* no final state to postprocess
IdlePost ==
    /\ active = {}
    /\ pixel_area = 1
    /\ cumulative = <<>>
    /\ surface_array = <<>>
    /\ stream = <<>>
    /\ rasters = <<>>
    /\ outputtable = <<>>
    /\ cum_in = <<>>

\* no critical water level under computation
IdleCrit ==
    /\ mat_slope = <<>>
    /\ mat_tau = <<>>
    /\ pow_v = <<>>
    /\ pow_flux = <<>>
    /\ mat_hcrit_tau = <<>>
    /\ mat_hcrit_v = <<>>
    /\ mat_hcrit_flux = <<>>
    /\ mat_hcrit = <<>>

\* no capacity of a step under computation
IdlePhil ==
    /\ phil_k = 0
    /\ phil_s = 0
    /\ phil_dt = 0
    /\ phil_t = 0
    /\ phil_ret = 0

\* no group table under construction
IdleComb ==
    /\ mat_k = <<>>
    /\ mat_s = <<>>
    /\ sci_cell = 0
    /\ combinat = <<>>
    /\ data_combinatIndex = <<>>
    /\ mat_inf_index = <<>>

\* no task under way
IdleRun ==
    /\ workflow_mode = "roff"
    /\ invalid_is_error = FALSE
    /\ load_fault = "none"
    /\ runoff_fault = "none"
    /\ save_fault = "none"
    /\ aborted = FALSE
    /\ progress = <<>>
    /\ calls = <<>>
    /\ load_exc = "none"
    /\ raised = "none"
    /\ run_ret = "unset"
    /\ task_ret = "unset"
    /\ task_error = "None"
    /\ load_calls = <<>>
    /\ saved_data = {}
    /\ ctor_fault = "none"
    /\ runner = "None"
    /\ message = <<>>
    /\ task_no = 0
    /\ last_raised = "none"

\* no run loaded: the fields of Globals are None
IdleGlob ==
    /\ glob_provider = "base"
    /\ glob_run = 0
    /\ cfg_end_time = 0
    /\ cfg_type = "rill"
    /\ data = <<>>
    /\ Globals_end_time = <<>>
    /\ Globals_subflow = "None"
    /\ Globals_isRill = "None"
    /\ Globals_isStream = "None"

\* no slope profile loaded
IdleRows ==
    /\ joint_data = <<>>
    /\ resolution = 1
    /\ nr_of_rows = <<>>
    /\ parsed_data = <<>>
    /\ segment_no = 0
    /\ subsegment_unseen = 0

IdleRest == IdlePhil /\ IdleComb /\ IdleRun /\ IdleGlob /\ IdleRows

InitInf ==
    /\ IdlePost
    /\ IdleCrit
    /\ IdleRest
    /\ pc = "inf_call"
    /\ exc = "none"
    /\ combinatIndex \in GroupTables
    /\ soil \in [Cells -> SoilIds]
    /\ bil_in \in [Cells -> Depths]
    /\ bil = bil_in
    /\ infiltration = [c \in Cells |-> 0]
    /\ zi = 0
    /\ table_in = combinatIndex

\* line 22
PhilipEnter ==
    /\ pc = "inf_call"
    /\ infiltration' = SeedInfiltration(combinatIndex)
    /\ zi' = 1
    /\ pc' = "inf_loop"
    /\ UNCHANGED <<exc, combinatIndex, soil, bil_in, bil, table_in, postVars, critVars, restVars>>

\* lines 24-25: the check at the head of a pass raises
PhilipRaise ==
    /\ pc = "inf_loop"
    /\ zi <= Len(combinatIndex)
    /\ AllNegative(bil)
    /\ exc' = "NegativeWaterLevel"
    /\ pc' = "inf_raised"
    /\ UNCHANGED <<combinatIndex, soil, bil_in, bil, infiltration, zi, table_in, postVars, critVars, restVars>>

\* lines 23-38: one pass of the loop, for the row z = combinatIndex[zi]
PhilipPass ==
    /\ pc = "inf_loop"
    /\ zi <= Len(combinatIndex)
    /\ ~AllNegative(bil)
    /\ infiltration' = PassInfiltration(combinatIndex[zi], soil, bil, infiltration)
    /\ bil' = PassBil(combinatIndex[zi], soil, bil)
    /\ combinatIndex' = PassCombinatIndex(combinatIndex, zi, soil, bil)
    /\ zi' = zi + 1
    /\ UNCHANGED <<pc, exc, soil, bil_in, table_in, postVars, critVars, restVars>>

\* line 40
PhilipReturn ==
    /\ pc = "inf_loop"
    /\ zi > Len(combinatIndex)
    /\ pc' = "inf_returned"
    /\ UNCHANGED <<exc, combinatIndex, soil, bil_in, bil, infiltration, zi, table_in, postVars, critVars, restVars>>

NextInf == PhilipEnter \/ PhilipRaise \/ PhilipPass \/ PhilipReturn

SpecInf == InitInf /\ [][NextInf]_vars

\* philip_infiltration as a function of its inputs: lines 20-40 run over the
\* rows of table from row i on
RECURSIVE PhilipLoop(_, _, _, _, _)
PhilipLoop(table, i, s, b, inf) ==
    IF i > Len(table)
    THEN [exc |-> "none", bil |-> b, infiltration |-> inf]
    ELSE IF AllNegative(b)
         THEN [exc |-> "NegativeWaterLevel", bil |-> b, infiltration |-> inf]
         ELSE PhilipLoop(table, i + 1, s,
                         PassBil(table[i], s, b),
                         PassInfiltration(table[i], s, b, inf))

PhilipRun(table, s, b) == PhilipLoop(table, 1, s, b, SeedInfiltration(table))

\* ------------------------------------------------- infiltration: properties
Min2(a, b) == IF a <= b THEN a ELSE b

\* the rows of the table whose id is the cell's soil id
RowsOf(c) == { i \in 1..Len(table_in) : table_in[i][1] = soil[c] }
Matched(c) == RowsOf(c) # {}
CapOf(c) == table_in[CHOOSE i \in RowsOf(c) : TRUE][4]

\* the same rows in another order
Reorderings(table) ==
    { [i \in 1..Len(table) |-> table[f[i]]] : f \in Permutations(1..Len(table)) }

\* the largest depth a cell of row i's group infiltrated in this call
GroupInfiltrated(i) ==
    LET got == { infiltration[c] : c \in { d \in Cells : soil[d] = table_in[i][1] } }
    IN  IF got = {} THEN 0 ELSE CHOOSE t \in got : \A u \in got : u <= t

\* C1 (as claimed): a depth array with at least one negative entry never
\* comes back from philip_infiltration, it raises NegativeWaterLevel, and
\* the raise comes before any pass has rewritten a cell.
C1_RaisesOnAnyNegative ==
    /\ (pc = "inf_returned" => \A c \in Cells : bil_in[c] >= 0)
    /\ (pc = "inf_raised" => exc = "NegativeWaterLevel" /\ zi = 1 /\ bil = bil_in)

\* C2: called with a non-negative depth array, every cell whose soil id is
\* in the table comes back with infiltration at most min(input depth,
\* capacity of its group) and with depth >= 0.
C2_InfiltrationBounded ==
    (pc = "inf_returned" /\ \A c \in Cells : bil_in[c] >= 0) =>
        \A c \in Cells :
            Matched(c) =>
                /\ infiltration[c] <= Min2(bil_in[c], CapOf(c))
                /\ bil[c] >= 0

\* C2 witness: a completed call on non-negative depths in which one matched
\* cell is limited by its depth and another by its group's capacity.
C2_Witness ==
    /\ pc = "inf_returned"
    /\ \A c \in Cells : bil_in[c] >= 0
    /\ \E c \in Cells : Matched(c) /\ CapOf(c) > bil_in[c] /\ bil_in[c] > 0
    /\ \E c \in Cells : Matched(c) /\ CapOf(c) < bil_in[c] /\ CapOf(c) > 0

\* C3: every matched cell comes back with infiltration = min(capacity,
\* input depth) and depth = input depth - infiltration.
C3_InfiltrationExact ==
    pc = "inf_returned" =>
        \A c \in Cells :
            Matched(c) =>
                /\ infiltration[c] = Min2(CapOf(c), bil_in[c])
                /\ bil[c] = bil_in[c] - infiltration[c]
                /\ (CapOf(c) > bil_in[c] => bil[c] = 0)
                /\ (CapOf(c) <= bil_in[c] => bil[c] = bil_in[c] - CapOf(c))

\* C3 witness: a completed call with a matched cell that keeps water
\* (capacity below depth) and a matched cell that is drained.
C3_Witness ==
    /\ pc = "inf_returned"
    /\ \E c \in Cells : Matched(c) /\ bil[c] > 0 /\ infiltration[c] > 0
    /\ \E c \in Cells : Matched(c) /\ bil[c] = 0 /\ infiltration[c] > 0

\* C4, first half: a pass rewrites depth and infiltration only at the cells
\* of its own group; the cells of every other group keep their values.
C4_PassFrame ==
    [][PhilipPass =>
        \A c \in Cells :
            soil[c] # combinatIndex[zi][1] =>
                bil'[c] = bil[c] /\ infiltration'[c] = infiltration[c]]_vars

\* C4 (as claimed), second half: with distinct group ids the result of the
\* call, for each cell, is the same for every order of the rows of the table.
C4_OrderIndependent ==
    pc = "inf_returned" =>
        \A t \in Reorderings(table_in) :
            PhilipRun(t, soil, bil_in) =
                [exc |-> "none", bil |-> bil, infiltration |-> infiltration]

C28_WaterConserved ==
    pc = "inf_returned" =>
        \A c \in Cells : bil[c] + infiltration[c] = bil_in[c]

\* ========================================================== postprocessing
\* The accumulator fields that enter the closing balance (lines 511-513).
\* postprocessing masks them, and ten more fields that the balance does not
\* read, in the loops of lines 479-492.
Fields == {"precipitation", "inflow_sur", "infiltration", "vol_sur_tot", "sur_ret"}

\* The grids an accumulator field is drawn from: empty, or a ramp over the cells.
GridTemplates ==
    { [c \in Cells |-> 0], [c \in Cells |-> c * MaxVol] }

\* surface_array.state: sheet, the last state below the channel states, the
\* first channel state
StateVals == {0, streams_flow_inc - 1, streams_flow_inc}

\* np.float32 of an integer: exact up to 2^24, the lowest bit is lost above
Float32(x) ==
    IF x >= -16777216 /\ x <= 16777216 THEN x ELSE 2 * (x \div 2)

\* A faulty MakeMask: the value is restored from the neighbouring cell
\* (copy_arr[i, j - 1]; index -1 wraps to the last cell).
MakeMaskShifted(arr, act) ==
    [c \in DOMAIN arr |->
        IF c \in act THEN arr[IF c = 1 THEN NCells ELSE c - 1] ELSE NoDataValue]

\* A faulty MakeMask: the grid is not filled with the sentinel first.
MakeMaskNoFill(arr, act) == arr

\* lines 562-580: _make_mask, which rewrites arr itself and returns it
MakeMask(arr, act) ==
    [c \in DOMAIN arr |-> IF c \in act THEN arr[c] ELSE NoDataValue]

\* A faulty IsChannel: the first channel state is taken for a surface state.
IsChannelStrict(st) == st > streams_flow_inc

\* lines 505, 517-518: state >= Globals.streams_flow_inc
IsChannel(st) == st >= streams_flow_inc

\* lines 479-492: every output field of the accumulator goes through _make_mask
MaskedCumulative(cum, act) == [f \in DOMAIN cum |-> MakeMask(cum[f], act)]

\* lines 494-496, 502-504
FinState(sa, act) ==
    [c \in Cells |->
        IF c \in act THEN Float32(sa.state[c]) ELSE Float32(NoDataValue)]

\* lines 497-498, 502-509
VRest(sa, act, area) ==
    [c \in Cells |->
        IF c \in act /\ ~IsChannel(FinState(sa, act)[c])
        THEN Float32(sa.h_total_new[c] * area)
        ELSE Float32(NoDataValue)]

\* lines 511-519: the balance over the whole grid, then the channel cells of
\* the region set to the sentinel
TotalBil(cum, sa, act, area) ==
    [c \in Cells |->
        IF c \in act /\ IsChannel(sa.state[c])
        THEN NoDataValue
        ELSE (cum.precipitation[c] + cum.inflow_sur[c])
             - (cum.infiltration[c] + cum.vol_sur_tot[c])
             - cum.sur_ret[c] - VRest(sa, act, area)[c]]

\* lines 521-523: the three control rasters of one invocation
ControlRasters(cum, sa, act, area) ==
    [massbalance |-> MakeMask(TotalBil(cum, sa, act, area), act),
     volrest_m3 |-> MakeMask(VRest(sa, act, area), act),
     surfacestate |-> MakeMask(FinState(sa, act), act)]

\* A sample array is a masked array: entry i is [v |-> data, m |-> mask bit].
\* ma.unique gives the distinct unmasked values in ascending order, followed
\* by one masked entry when the array has a masked entry.
UniqueVals(a) == { a[i].v : i \in { j \in DOMAIN a : ~a[j].m } }
AnyMasked(a) == \E i \in DOMAIN a : a[i].m
UniqueLen(a) == Cardinality(UniqueVals(a)) + (IF AnyMasked(a) THEN 1 ELSE 0)

\* lines 552-553: ma.unique(...)[0]
UniqueFirst(a) == CHOOSE v \in UniqueVals(a) : \A w \in UniqueVals(a) : v <= w

\* lines 542, 547: len(ma.unique(...)) > 2
TooMany(a) == UniqueLen(a) > 2

\* A faulty ReachRow: the last two columns change places.
ReachRowSwapped(r) ==
    <<r.segment_id, r.b, r.m, r.roughness, r.q365,
      UniqueFirst(r.Q_max), UniqueFirst(r.V_out_cum)>>

\* lines 533-537, 552-553: one row of outputtable
ReachRow(r) ==
    <<r.segment_id, r.b, r.m, r.roughness, r.q365,
      UniqueFirst(r.V_out_cum), UniqueFirst(r.Q_max)>>

\* lines 532-551: the error the loop over the reaches ends with, "none" when
\* it completes
ReachError(st) ==
    LET bad == { i \in DOMAIN st : TooMany(st[i].V_out_cum) \/ TooMany(st[i].Q_max) }
    IN  IF bad = {} THEN "none"
        ELSE LET i == CHOOSE j \in bad : \A k \in bad : j <= k
             IN  IF TooMany(st[i].V_out_cum)
                 THEN "SmoderpError: Too many values in V_out_cum"
                 ELSE "SmoderpError: Too many values in Q_max"

\* a sample array of NSamp entries that cycles through d values from v on;
\* mk masks its last entry (a cell outside the region)
Samples(v, d, mk) ==
    [i \in 1..NSamp |-> [v |-> v + (i % d), m |-> mk /\ i = NSamp]]

Reach(fid, vs, qs) ==
    [segment_id |-> fid, b |-> 10 * fid + 1, m |-> 10 * fid + 2,
     roughness |-> 10 * fid + 3, q365 |-> 10 * fid + 4,
     V_out_cum |-> vs, Q_max |-> qs]

\* per reach: the base value and the numbers of distinct values of its
\* V_out_cum and of its Q_max samples (Q_max lies ten above V_out_cum)
SampleParams == (1..MaxVal) \X (1..NSamp) \X (1..NSamp)

\* final states that vary the grids, with no stream or one consistent reach
BalanceInputs ==
    /\ active \in SUBSET Cells
    /\ pixel_area \in {1, MaxArea}
    /\ cumulative \in [Fields -> GridTemplates]
    /\ surface_array \in [state : [Cells -> StateVals], h_total_new : GridTemplates]
    /\ stream \in { <<>>, <<Reach(1, Samples(1, 1, FALSE), Samples(11, 1, FALSE))>> }

\* final states that vary the reaches, over an empty grid
ReachInputs ==
    /\ active = Cells
    /\ pixel_area = 1
    /\ cumulative = [f \in Fields |-> [c \in Cells |-> 0]]
    /\ surface_array = [state |-> [c \in Cells |-> 0],
                        h_total_new |-> [c \in Cells |-> 0]]
    /\ \E n \in 1..MaxReaches, mk \in BOOLEAN :
         stream \in { [i \in 1..n |->
                          Reach(i, Samples(p[i][1], p[i][2], mk),
                                   Samples(p[i][1] + 10, p[i][3], mk))]
                      : p \in [1..n -> SampleParams] }

InitPost ==
    /\ IdleInf
    /\ IdleCrit
    /\ IdleRest
    /\ pc = "post_ready"
    /\ exc = "none"
    /\ (BalanceInputs \/ ReachInputs)
    /\ rasters = <<>>
    /\ outputtable = <<>>
    /\ cum_in = cumulative

\* lines 438-560: one invocation of postprocessing.  The rasters are written
\* before the reach table is built, so they are written also when the table
\* fails; the table is saved only when the loop over the reaches completes.
Postprocessing ==
    /\ pc = "post_ready"
    /\ Len(rasters) < MaxPostRuns
    /\ cumulative' = MaskedCumulative(cumulative, active)
    /\ rasters' = Append(rasters,
                         ControlRasters(MaskedCumulative(cumulative, active),
                                        surface_array, active, pixel_area))
    /\ IF stream # <<>>
       THEN /\ exc' = ReachError(stream)
            /\ outputtable' = IF ReachError(stream) = "none"
                             THEN [i \in DOMAIN stream |-> ReachRow(stream[i])]
                             ELSE outputtable
       ELSE /\ exc' = "none"
            /\ UNCHANGED outputtable
    /\ UNCHANGED <<pc, infVars, critVars, restVars, active, pixel_area, surface_array, stream, cum_in>>

NextPost == Postprocessing

SpecPost == InitPost /\ [][NextPost]_vars

\* ----------------------------------------------- postprocessing: properties
\* the distinct values recorded (unmasked) in a sample array
Uniform(a) == Cardinality(UniqueVals(a)) = 1
Invoked == Len(rasters) >= 1

\* C6 (as claimed): postprocessing fails for every reach whose V_out_cum or
\* Q_max samples hold more than one distinct value, and saves no table
\* then.
C6_FailsOnDistinctValues ==
    (Invoked /\ \E i \in DOMAIN stream :
                    ~Uniform(stream[i].V_out_cum) \/ ~Uniform(stream[i].Q_max))
        => (exc # "none" /\ outputtable = <<>>)

\* C7: when all samples of every reach agree, postprocessing succeeds and
\* the table has one row per reach, in mapping order, with the columns
\* segment id, b, m, roughness, q365, V_out_cum, Q_max; and whenever a table
\* is saved, the row of a reach with agreeing samples holds their value.
C7_UniformReachTable ==
    /\ (Invoked /\ stream # <<>> /\
        \A i \in DOMAIN stream :
            Uniform(stream[i].V_out_cum) /\ Uniform(stream[i].Q_max))
        => /\ exc = "none"
           /\ DOMAIN outputtable = DOMAIN stream
           /\ \A i \in DOMAIN stream :
                \E v \in UniqueVals(stream[i].V_out_cum),
                   q \in UniqueVals(stream[i].Q_max) :
                    outputtable[i] =
                        <<stream[i].segment_id, stream[i].b, stream[i].m,
                          stream[i].roughness, stream[i].q365, v, q>>
    /\ \A i \in DOMAIN outputtable :
        /\ Len(outputtable[i]) = 7
        /\ Uniform(stream[i].V_out_cum) => outputtable[i][6] \in UniqueVals(stream[i].V_out_cum)
        /\ Uniform(stream[i].Q_max) => outputtable[i][7] \in UniqueVals(stream[i].Q_max)

\* C7 witness: a table of two rows saved for reaches whose samples agree,
\* with a masked entry in the sample arrays.
C7_Witness ==
    /\ Len(outputtable) = 2
    /\ \A i \in DOMAIN stream :
        /\ Uniform(stream[i].V_out_cum) /\ Uniform(stream[i].Q_max)
        /\ AnyMasked(stream[i].V_out_cum)

\* C8: in every mass-balance raster written, a cell outside the region
\* holds the sentinel, a channel cell of the region holds the sentinel, and
\* every other cell of the region holds (precipitation + inflow_sur) -
\* (infiltration + vol_sur_tot) - sur_ret - h_total_new * pixel_area.
C8_MassBalanceRaster ==
    \A k \in DOMAIN rasters :
        \A c \in Cells :
            rasters[k].massbalance[c] =
                IF c \notin active THEN NoDataValue
                ELSE IF surface_array.state[c] >= streams_flow_inc THEN NoDataValue
                ELSE (cum_in.precipitation[c] + cum_in.inflow_sur[c])
                     - (cum_in.infiltration[c] + cum_in.vol_sur_tot[c])
                     - cum_in.sur_ret[c]
                     - surface_array.h_total_new[c] * pixel_area

\* C8 witness: a raster written for a region with a channel cell and a cell
\* that holds water and has a non-zero balance.
C8_Witness ==
    /\ Invoked
    /\ \E c \in active : surface_array.state[c] = streams_flow_inc
    /\ \E c \in active :
        /\ surface_array.state[c] < streams_flow_inc
        /\ surface_array.h_total_new[c] > 0
        /\ rasters[1].massbalance[c] # 0

\* C9: two invocations on the same final state write the same mass-balance
\* raster, although the first has rewritten the accumulator's grids.
C9_SecondRunIdentical ==
    Len(rasters) >= 2 => rasters[2].massbalance = rasters[1].massbalance

\* C9 witness: a second invocation after the first has changed the
\* accumulator's grids outside the region.
C9_Witness ==
    /\ Len(rasters) >= 2
    /\ cumulative # cum_in
    /\ \E c \in active : rasters[1].massbalance[c] \notin {0, NoDataValue}

\* ===================================================== critical water level
\* A float is [nan |-> BOOLEAN, v |-> number]; the number of a nan is 0.
Num(x) == [nan |-> FALSE, v |-> x]
NaN == [nan |-> TRUE, v |-> 0]

CritCells == 1..NCritCells

\* the product of 1..n: every slope of 1..n divides it
RECURSIVE SlopeLcm(_)
SlopeLcm(n) == IF n <= 1 THEN 1 ELSE n * SlopeLcm(n - 1)

\* slopes: the sentinel, flat ground, and the positive slopes
SlopeVals == {NoDataValue} \cup (0..MaxSlope)
\* critical shear in units of 98.07: the sentinel, or a value every slope divides
TauVals == {NoDataValue} \cup { k * SlopeLcm(MaxSlope) : k \in 0..MaxTau }
\* the results of np.power: a real power of a negative base is nan
PowVals == {NaN} \cup { Num(x) : x \in 0..MaxPow }

\* Python's a < b on floats: False when either is nan
FloatLess(a, b) == ~a.nan /\ ~b.nan /\ a.v < b.v

\* A faulty PyMin3: the estimate from the shear is adopted.
PyMinFirst(a, b, c) == a

\* line 406: the builtin min(a, b, c) keeps a and replaces it by a later
\* argument that compares less
PyMin3(a, b, c) ==
    LET ab == IF FloatLess(b, a) THEN b ELSE a
    IN  IF FloatLess(c, ab) THEN c ELSE ab

\* A faulty HasData: one of the two values being present is enough.
HasDataEither(slope, tau) == slope # NoDataValue \/ tau # NoDataValue

\* lines 385-386
HasData(slope, tau) == slope # NoDataValue /\ tau # NoDataValue

\* lines 395-400: hcrit_tau = tau_crit / 98.07 / slope (tau in units of 98.07)
HcritTau(slope, tau) ==
    IF slope = 0 THEN Num(HCritFlat) ELSE Num(tau \div slope)

\* A faulty HcritV: the estimate from the velocity is the power on flat
\* ground as well.
HcritVNoFlat(slope, pw) == pw

\* lines 395-399: hcrit_v = np.power(v_crit / aa, 1 / (b - 1))
HcritV(slope, pw) == IF slope = 0 THEN Num(HCritFlat) ELSE pw

\* lines 395-401: hcrit_flux = np.power(flux_crit / slope / 98.07 / aa, 1 / b)
HcritFlux(slope, pw) == IF slope = 0 THEN Num(HCritFlat) ELSE pw

\* lines 383-412: the four values stored for one cell
CritCell(slope, tau, pv, pf) ==
    IF HasData(slope, tau)
    THEN [tau |-> HcritTau(slope, tau),
          v |-> HcritV(slope, pv),
          flux |-> HcritFlux(slope, pf),
          hcrit |-> PyMin3(HcritTau(slope, tau), HcritV(slope, pv), HcritFlux(slope, pf))]
    ELSE [tau |-> Num(NoDataValue), v |-> Num(NoDataValue),
          flux |-> Num(NoDataValue), hcrit |-> Num(NoDataValue)]

InitCrit ==
    /\ IdleInf
    /\ IdlePost
    /\ IdleRest
    /\ pc = "crit_call"
    /\ exc = "none"
    /\ mat_slope \in [CritCells -> SlopeVals]
    /\ mat_tau \in [CritCells -> TauVals]
    /\ pow_v \in [CritCells -> PowVals]
    /\ pow_flux \in [CritCells -> PowVals]
    /\ mat_hcrit_tau = [c \in CritCells |-> Num(0)]
    /\ mat_hcrit_v = [c \in CritCells |-> Num(0)]
    /\ mat_hcrit_flux = [c \in CritCells |-> Num(0)]
    /\ mat_hcrit = [c \in CritCells |-> Num(0)]

\* lines 371-424: _get_crit_water
GetCritWater ==
    /\ pc = "crit_call"
    /\ mat_hcrit_tau' =
        [c \in CritCells |-> CritCell(mat_slope[c], mat_tau[c], pow_v[c], pow_flux[c]).tau]
    /\ mat_hcrit_v' =
        [c \in CritCells |-> CritCell(mat_slope[c], mat_tau[c], pow_v[c], pow_flux[c]).v]
    /\ mat_hcrit_flux' =
        [c \in CritCells |-> CritCell(mat_slope[c], mat_tau[c], pow_v[c], pow_flux[c]).flux]
    /\ mat_hcrit' =
        [c \in CritCells |-> CritCell(mat_slope[c], mat_tau[c], pow_v[c], pow_flux[c]).hcrit]
    /\ pc' = "crit_done"
    /\ UNCHANGED <<exc, infVars, postVars, restVars, mat_slope, mat_tau, pow_v, pow_flux>>

NextCrit == GetCritWater

SpecCrit == InitCrit /\ [][NextCrit]_vars

\* ---------------------------------------- critical water level: properties
\* the estimates stored for a cell
Estimates(c) == {mat_hcrit_tau[c], mat_hcrit_v[c], mat_hcrit_flux[c]}

\* C10: for every cell whose slope and critical shear are not the sentinel,
\* the stored critical depth is the minimum of the three estimates stored
\* for the cell: it is one of them, and no estimate is below it (a nan
\* estimate, which compares with nothing, is passed over).
C10_HcritIsMinimum ==
    pc = "crit_done" =>
        \A c \in CritCells :
            (mat_slope[c] # NoDataValue /\ mat_tau[c] # NoDataValue) =>
                /\ mat_hcrit[c] \in Estimates(c)
                /\ ~mat_hcrit[c].nan
                /\ \A e \in Estimates(c) : ~e.nan => mat_hcrit[c].v <= e.v

\* C10 witness: a sloping cell with data whose three estimates differ and
\* whose smallest estimate is not the one from the shear.
C10_Witness ==
    /\ pc = "crit_done"
    /\ \E c \in CritCells :
        /\ mat_slope[c] > 0
        /\ mat_tau[c] # NoDataValue
        /\ Cardinality(Estimates(c)) = 3
        /\ \A e \in Estimates(c) : ~e.nan
        /\ mat_hcrit[c] # mat_hcrit_tau[c]

\* the four values stored for a cell
Stored(c) == Estimates(c) \cup {mat_hcrit[c]}

\* C11: for every cell with data whose slope is exactly 0, the three
\* estimates and the adopted critical depth are all 1000, whatever the
\* critical shear and whatever the two powers (of b, aa and the critical
\* velocity) would have been.
C11_FlatSlopeConstant ==
    pc = "crit_done" =>
        \A c \in CritCells :
            (mat_slope[c] = 0 /\ mat_tau[c] # NoDataValue) =>
                Stored(c) = {Num(HCritFlat)}

\* C11 witness: a flat cell with data whose shear is positive and whose two
\* powers are a number and a nan.
C11_Witness ==
    /\ pc = "crit_done"
    /\ \E c \in CritCells :
        /\ mat_slope[c] = 0
        /\ mat_tau[c] > 0
        /\ ~pow_v[c].nan
        /\ pow_flux[c].nan
        /\ mat_hcrit[c] = Num(HCritFlat)

\* C12: a cell whose slope or critical shear is the sentinel gets the
\* sentinel in the three estimate grids and in the combined grid; at every
\* other cell the estimate from the shear is 1000 or the quotient of the
\* cell's own shear and slope, the other two estimates are 1000 or the cell's
\* own powers, the combined value is one of the three estimates, and none of
\* the four is the sentinel.
C12_SentinelPropagates ==
    pc = "crit_done" =>
        \A c \in CritCells :
            IF mat_slope[c] = NoDataValue \/ mat_tau[c] = NoDataValue
            THEN Stored(c) = {Num(NoDataValue)}
            ELSE /\ mat_hcrit_tau[c] =
                        IF mat_slope[c] = 0 THEN Num(HCritFlat)
                        ELSE Num(mat_tau[c] \div mat_slope[c])
                 /\ mat_hcrit_v[c] \in {Num(HCritFlat), pow_v[c]}
                 /\ mat_hcrit_flux[c] \in {Num(HCritFlat), pow_flux[c]}
                 /\ mat_hcrit[c] \in Estimates(c)
                 /\ Num(NoDataValue) \notin Stored(c)

\* C12 witness: the sentinel in the shear only, at a sloping cell whose two
\* powers are numbers.
C12_Witness ==
    /\ pc = "crit_done"
    /\ \E c \in CritCells :
        /\ mat_slope[c] > 0
        /\ mat_tau[c] = NoDataValue
        /\ ~pow_v[c].nan
        /\ ~pow_flux[c].nan
        /\ mat_hcrit[c] = Num(NoDataValue)

\* ========================================================= step capacity
\* Lengths are in 1e-6 m and times in s, so that k = 2e-5 m/s is 20 and
\* s = 1e-3 m/s^0.5 is 1000.

\* the square root is taken to three decimals
SqrtScale == 1000

\* the largest r of lo..hi with r * r <= x
RECURSIVE SqrtSearch(_, _, _)
SqrtSearch(x, lo, hi) ==
    IF lo = hi THEN lo
    ELSE LET mid == (lo + hi + 1) \div 2
         IN  IF mid * mid <= x THEN SqrtSearch(x, mid, hi)
             ELSE SqrtSearch(x, lo, mid - 1)

\* ma.sqrt on a non-negative number, rounded down
ISqrt(x) == SqrtSearch(x, 0, IF x < 46340 THEN x ELSE 46340)

\* the truth value Python gives a number
Truthy(x) == x # 0

\* A faulty PhilipRate: the term of the conductivity is left out.
PhilipRateNoK(k, s, deltaT, totalT) ==
    (SqrtScale * s * deltaT)
        \div (2 * ISqrt(SqrtScale * SqrtScale * (totalT + deltaT)))

\* lines 53-54: (0.5 * s / sqrt(totalT + deltaT) + k) * deltaT
PhilipRate(k, s, deltaT, totalT) ==
    (SqrtScale * s * deltaT)
        \div (2 * ISqrt(SqrtScale * SqrtScale * (totalT + deltaT)))
    + k * deltaT

\* lines 43-57: the condition of line 44 is k and (s == NoDataValue)
Phlilip(k, s, deltaT, totalT, nd) ==
    IF Truthy(k) /\ s = nd THEN nd ELSE PhilipRate(k, s, deltaT, totalT)

\* the parameters of a group: the sentinel, zero, and the values of the
\* documented scenario
KVals == {NoDataValue, 0, 20}
SVals == {NoDataValue, 0, 1000}
DeltaTs == {30, 60}
TotalTs == {0, 60}
\* surface depths: a negative one and 0.02 m
StepDepths == {-1, 20000}

\* one group, holding every cell, whose capacity of the step is still to be
\* computed
InitPhil ==
    /\ IdlePost
    /\ IdleCrit
    /\ IdleComb
    /\ IdleRun
    /\ IdleGlob
    /\ IdleRows
    /\ pc = "phil_call"
    /\ exc = "none"
    /\ phil_k \in KVals
    /\ phil_s \in SVals
    /\ phil_dt \in DeltaTs
    /\ phil_t \in TotalTs
    /\ phil_ret = 0
    /\ combinatIndex = << <<0, phil_k, phil_s, 0>> >>
    /\ table_in = combinatIndex
    /\ soil = [c \in Cells |-> 0]
    /\ bil_in \in [Cells -> StepDepths]
    /\ bil = bil_in
    /\ infiltration = [c \in Cells |-> 0]
    /\ zi = 0

\* lines 43-57: phlilip
PhlilipCall ==
    /\ pc = "phil_call"
    /\ phil_ret' = Phlilip(phil_k, phil_s, phil_dt, phil_t, NoDataValue)
    /\ pc' = "phil_done"
    /\ UNCHANGED <<exc, infVars, postVars, critVars, combVars, runVars, globVars, rowVars, phil_k, phil_s, phil_dt, phil_t>>

\* lines 15-17: set_combinatIndex with the group's row carrying the capacity
\* of the step
SetCombinatIndex ==
    /\ pc = "phil_done"
    /\ combinatIndex' = << <<0, phil_k, phil_s, phil_ret>> >>
    /\ table_in' = combinatIndex'
    /\ pc' = "inf_call"
    /\ UNCHANGED <<exc, soil, bil_in, bil, infiltration, zi, postVars, critVars, restVars>>

NextPhil == PhlilipCall \/ SetCombinatIndex \/ NextInf

SpecPhil == InitPhil /\ [][NextPhil]_vars

\* ------------------------------------------------ step capacity: properties
\* C13: phlilip returns the sentinel whenever k is the sentinel or s is the
\* sentinel (k = 0 with s the sentinel included), and otherwise the value of
\* the rate law; the sentinel never enters the arithmetic.
C13_SentinelGuard ==
    pc # "phil_call" =>
        phil_ret =
            IF phil_k = NoDataValue \/ phil_s = NoDataValue THEN NoDataValue
            ELSE PhilipRate(phil_k, phil_s, phil_dt, phil_t)

\* x is y when both are given to 1e-4 m
About(x, y) == y - 50 <= x /\ x < y + 50

\* the documented scenario, run to the end of the infiltration call
Scenario14 ==
    /\ pc = "inf_returned"
    /\ phil_k = 20
    /\ phil_s = 1000
    /\ phil_dt = 60
    /\ phil_t = 0
    /\ \A c \in Cells : bil_in[c] = 20000

\* C14 as stated: for k = 2e-5, s = 1e-3, a step of 60 s at time 0 and a
\* depth of 0.02 m, the capacity of the step is about 0.0039 m, the
\* infiltration about 0.0039 m and the depth left about 0.0161 m.
C14_StepCapacityClaimed ==
    Scenario14 =>
        /\ About(phil_ret, 3900)
        /\ \A c \in Cells : About(infiltration[c], 3900) /\ About(bil[c], 16100)

\* C14 amended: in that scenario the capacity of the step is about 0.0051 m,
\* the infiltration about 0.0051 m and the depth left about 0.0149 m.
C14_StepCapacity ==
    Scenario14 =>
        /\ About(phil_ret, 5100)
        /\ \A c \in Cells : About(infiltration[c], 5100) /\ About(bil[c], 14900)

\* C14 witness: the scenario has run, and the cells infiltrated the whole
\* capacity of the step.
C14_Witness ==
    /\ Scenario14
    /\ phil_ret > 0
    /\ \A c \in Cells : infiltration[c] = phil_ret

\* ======================================================= the group table
CombCells == 1..NCombCells

\* the pair [kkk, sss] of a cell
Pair(mk, ms, c) == <<mk[c], ms[c]>>

\* list.index: the 0-based position of the first element equal to x
Index(list, x) ==
    (CHOOSE i \in 1..Len(list) :
        list[i] = x /\ \A j \in 1..(i - 1) : list[j] # x) - 1

\* whether list.index finds x (it raises ValueError otherwise)
Has(list, x) == \E i \in 1..Len(list) : list[i] = x

\* A faulty FoundIndex: the grid is left as it is.
FoundIndexSkipped(mat, c, idx) == mat

\* lines 483-484: the index is stored when it is truthy
FoundIndex(mat, c, idx) ==
    IF Truthy(idx) THEN [mat EXCEPT ![c] = idx] ELSE mat

\* A faulty NewRow: ids are counted from 1.
NewRowOneBased(list, k, s) == <<Len(list), k, s, 0>>

\* lines 487-489: the row appended for a pair just added to the list
NewRow(list, k, s) == <<Index(list, <<k, s>>), k, s, 0>>

\* lines 470-475: the grid of ids starts as zeros, the two lists empty
InitComb ==
    /\ IdleInf
    /\ IdlePost
    /\ IdleCrit
    /\ IdlePhil
    /\ IdleRun
    /\ IdleGlob
    /\ IdleRows
    /\ pc = "sci_loop"
    /\ exc = "none"
    /\ mat_k \in [CombCells -> 0..MaxK]
    /\ mat_s \in [CombCells -> 0..MaxS]
    /\ sci_cell = 1
    /\ combinat = <<>>
    /\ data_combinatIndex = <<>>
    /\ mat_inf_index = [c \in CombCells |-> 0]

\* lines 478-484: the pair of the cell is in the list
SetCombinatFound ==
    /\ pc = "sci_loop"
    /\ sci_cell <= NCombCells
    /\ Has(combinat, Pair(mat_k, mat_s, sci_cell))
    /\ mat_inf_index' =
        FoundIndex(mat_inf_index, sci_cell,
                   Index(combinat, Pair(mat_k, mat_s, sci_cell)))
    /\ sci_cell' = sci_cell + 1
    /\ UNCHANGED <<pc, exc, infVars, postVars, critVars, philVars, runVars, globVars, rowVars,
                   mat_k, mat_s, combinat, data_combinatIndex>>

\* lines 478-491: the pair of the cell is not in the list, index raises
SetCombinatNew ==
    /\ pc = "sci_loop"
    /\ sci_cell <= NCombCells
    /\ ~Has(combinat, Pair(mat_k, mat_s, sci_cell))
    /\ combinat' = Append(combinat, Pair(mat_k, mat_s, sci_cell))
    /\ data_combinatIndex' =
        Append(data_combinatIndex,
               NewRow(combinat', mat_k[sci_cell], mat_s[sci_cell]))
    /\ mat_inf_index' =
        [mat_inf_index EXCEPT
            ![sci_cell] = Index(combinat', Pair(mat_k, mat_s, sci_cell))]
    /\ sci_cell' = sci_cell + 1
    /\ UNCHANGED <<pc, exc, infVars, postVars, critVars, philVars, runVars, globVars, rowVars,
                   mat_k, mat_s>>

\* line 517: the loops are over
SetCombinatReturn ==
    /\ pc = "sci_loop"
    /\ sci_cell > NCombCells
    /\ pc' = "sci_done"
    /\ UNCHANGED <<exc, infVars, postVars, critVars, restVars>>

NextComb == SetCombinatFound \/ SetCombinatNew \/ SetCombinatReturn

SpecComb == InitComb /\ [][NextComb]_vars

\* ------------------------------------------------ the group table: properties
\* the pairs of the grid
GridPairs == { Pair(mat_k, mat_s, c) : c \in CombCells }

\* the first cell, row by row, that holds the pair
FirstCell(pr) ==
    CHOOSE c \in CombCells :
        Pair(mat_k, mat_s, c) = pr /\ \A d \in 1..(c - 1) : Pair(mat_k, mat_s, d) # pr

\* the pair of a row of the table
RowPair(row) == <<row[2], row[3]>>

\* the rows of the table with the id of the cell
RowsWithId(c) ==
    { i \in 1..Len(data_combinatIndex) : data_combinatIndex[i][1] = mat_inf_index[c] }

\* C15: when _set_combinatIndex has run, the table has one row for every
\* pair of the grid, the row at position i (from 0) has id i and capacity 0,
\* the rows are in the order in which their pairs are first seen row by row,
\* and every cell's id is the id of exactly one row.
C15_DenseFirstSeenIds ==
    pc = "sci_done" =>
        LET n == Len(data_combinatIndex)
        IN  /\ n = Cardinality(GridPairs)
            /\ \A i \in 1..n :
                /\ data_combinatIndex[i][1] = i - 1
                /\ data_combinatIndex[i][4] = 0
                /\ RowPair(data_combinatIndex[i]) \in GridPairs
            /\ \A i, j \in 1..n :
                i < j => FirstCell(RowPair(data_combinatIndex[i]))
                            < FirstCell(RowPair(data_combinatIndex[j]))
            /\ \A c \in CombCells : Cardinality(RowsWithId(c)) = 1

\* C15 witness: a table of three rows built from a grid on which a pair
\* comes back after another pair was seen.
C15_Witness ==
    /\ pc = "sci_done"
    /\ Len(data_combinatIndex) = 3
    /\ \E c, d \in CombCells :
        c + 1 < d /\ Pair(mat_k, mat_s, c) = Pair(mat_k, mat_s, d)

\* C16: every cell's id is the id of the row that holds exactly the cell's
\* pair, two cells have the same id exactly when their pairs are equal, and
\* no pair is in the table twice; cells that repeat the first pair seen
\* (id 0) are no exception.
C16_IdIsPairLookup ==
    pc = "sci_done" =>
        /\ \A c \in CombCells :
            /\ mat_inf_index[c] + 1 \in 1..Len(data_combinatIndex)
            /\ RowPair(data_combinatIndex[mat_inf_index[c] + 1])
                    = Pair(mat_k, mat_s, c)
        /\ \A c, d \in CombCells :
            mat_inf_index[c] = mat_inf_index[d]
                <=> Pair(mat_k, mat_s, c) = Pair(mat_k, mat_s, d)
        /\ \A i, j \in 1..Len(data_combinatIndex) :
            RowPair(data_combinatIndex[i]) = RowPair(data_combinatIndex[j])
                => i = j

\* C16 witness: a later cell repeats the first pair seen, and another later
\* cell repeats a pair that has a positive id.
C16_Witness ==
    /\ pc = "sci_done"
    /\ \E c \in CombCells : c > 1 /\ Pair(mat_k, mat_s, c) = Pair(mat_k, mat_s, 1)
    /\ \E c, d \in CombCells :
        /\ c < d
        /\ mat_inf_index[c] > 0
        /\ Pair(mat_k, mat_s, c) = Pair(mat_k, mat_s, d)

\* ================================================================ the run
\* WorkflowMode, and a value that is none of its members
Modes == {"dpre", "roff", "full"}
ModeVals == Modes \cup {"other"}

\* what _load_dpre can raise, and what goes wrong in _load_roff: the
\* rainfall file is invalid (ProviderError), the data file cannot be read
\* (IOError), the data file holds a list
LoadFaults == {"none", "DataPreparationInvalidInput", "DataPreparationError",
               "ProviderError", "IOError", "list"}
\* what Runoff.run can raise by itself
RunoffFaults == {"none", "NegativeWaterLevel"}
\* what save_output can raise: the reach table's consistency error
SaveFaults == {"none", "SmoderpError"}
\* what the QGISRunner constructor can raise: SmoderpError when GRASS is not
\* found (line 182), ProviderError from the provider it builds
CtorFaults == {"none", "SmoderpError", "ProviderError"}

\* the methods the Runner classes define (lines 36-125 and 134-266)
RunnerMethods == {"run", "set_options", "import_data", "show_results",
                  "export_data"}

\* isinstance(kind(), cls): NegativeWaterLevel is a SmoderpError, and sub says
\* whether DataPreparationInvalidInput is a DataPreparationError
IsA(kind, cls, sub) ==
    \/ kind = cls
    \/ kind = "NegativeWaterLevel" /\ cls = "SmoderpError"
    \/ kind = "DataPreparationInvalidInput" /\ cls = "DataPreparationError" /\ sub

\* self.error for an aborted computation
AbortedMsg == "Computation was manually aborted."

\* A faulty StartProgress: every mode starts at 100.
StartProgressDone(mode) == 100

\* lines 91-96
StartProgress(mode) ==
    IF mode = "dpre" THEN 100 ELSE IF mode = "full" THEN 40 ELSE 10

\* A faulty LeavesLoad: load swallows what the loading raises.
LeavesLoadSwallowed(mode, fault, sub) == "none"

\* base lines 269-293: the exception that leaves load, or "none"
LeavesLoad(mode, fault, sub) ==
    IF mode \in {"dpre", "full"}
    THEN IF fault \in {"DataPreparationInvalidInput", "DataPreparationError"}
         THEN IF IsA(fault, "DataPreparationError", sub)
              THEN "ProviderError" ELSE fault
         ELSE "none"
    ELSE IF fault \in {"ProviderError", "IOError"} THEN "ProviderError"
    ELSE IF fault = "list" THEN "AttributeError"
    ELSE "none"

\* the keys _load_dpre puts into the data, as one name
PreparedKeys == {"prepared"}
\* base lines 284-285: the keys copied from GridGlobals
GridGlobalsKeys == {"NoDataValue", "bc", "br", "c", "dx", "dy", "pixel_area",
                    "r", "rc", "rr", "xllcorner", "yllcorner"}

\* A faulty LoadCalls: the mode dpre goes on to _set_globals.
LoadCallsNoStop(mode, fault, sub) ==
    IF mode \in {"dpre", "full"}
    THEN IF LeavesLoad(mode, fault, sub) # "none"
         THEN <<"_cleanup", "_load_dpre">>
         ELSE IF mode = "dpre"
         THEN <<"_cleanup", "_load_dpre", "_save_data", "_set_globals">>
         ELSE <<"_cleanup", "_load_dpre", "_set_globals">>
    ELSE IF LeavesLoad(mode, fault, sub) # "none"
         THEN <<"_cleanup", "_load_roff">>
         ELSE <<"_cleanup", "_load_roff", "_set_globals">>

\* base lines 269-293: the calls load makes before it returns or raises
LoadCalls(mode, fault, sub) ==
    IF mode \in {"dpre", "full"}
    THEN IF LeavesLoad(mode, fault, sub) # "none"
         THEN <<"_cleanup", "_load_dpre">>
         ELSE IF mode = "dpre"
         THEN <<"_cleanup", "_load_dpre", "_save_data">>
         ELSE <<"_cleanup", "_load_dpre", "_set_globals">>
    ELSE IF LeavesLoad(mode, fault, sub) # "none"
         THEN <<"_cleanup", "_load_roff">>
         ELSE <<"_cleanup", "_load_roff", "_set_globals">>

\* base lines 280-287: what the mode dpre saves
SavedData(mode, fault, sub) ==
    IF mode = "dpre" /\ LeavesLoad(mode, fault, sub) = "none"
    THEN PreparedKeys \cup GridGlobalsKeys ELSE {}

\* the exception that leaves Runoff.run, or "none": the time loop raises
\* ComputationAborted when it finds Logger.aborted set
RunoffRaises(ab, fault) == IF ab THEN "ComputationAborted" ELSE fault

\* A faulty TaskError: the handlers leave self.error as it is.
TaskErrorNone(kind, sub) == "None"

\* dockwidget lines 91-97: self.error as the handlers set it
TaskError(kind, sub) ==
    IF IsA(kind, "ProviderError", sub) THEN kind ELSE AbortedMsg

\* dockwidget lines 91 and 95: the exceptions SmoderpTask.run handles
Handled(kind, sub) ==
    IsA(kind, "ProviderError", sub) \/ IsA(kind, "ComputationAborted", sub)

InitRun ==
    /\ IdleInf
    /\ IdlePost
    /\ IdleCrit
    /\ IdlePhil
    /\ IdleComb
    /\ IdleGlob
    /\ IdleRows
    /\ pc = "task_call"
    /\ exc = "none"
    /\ workflow_mode \in ModeVals
    /\ invalid_is_error \in BOOLEAN
    /\ load_fault \in LoadFaults
    /\ runoff_fault \in RunoffFaults
    /\ save_fault \in SaveFaults
    /\ aborted = FALSE
    /\ progress = <<>>
    /\ calls = <<>>
    /\ load_exc = "none"
    /\ raised = "none"
    /\ run_ret = "unset"
    /\ task_ret = "unset"
    /\ task_error = "None"
    /\ load_calls = <<>>
    /\ saved_data = {}
    /\ ctor_fault \in CtorFaults
    /\ runner = "None"
    /\ message = <<>>
    /\ task_no = 1
    /\ last_raised = "none"

\* the inputs of a run, which no step changes
runInputs == <<workflow_mode, invalid_is_error, load_fault, runoff_fault, save_fault,
               ctor_fault>>
\* the groups of the other operations
idleVars == <<infVars, postVars, critVars, philVars, combVars, globVars, rowVars>>
\* the task's runner, its message, and the count of tasks
taskVars == <<runner, message, task_no, last_raised>>

\* dockwidget lines 85-90: the task builds its runner and calls Runner.run;
\* when the constructor raises, self.runner stays None
TaskRun ==
    /\ pc = "task_call"
    /\ IF ctor_fault = "none"
       THEN runner' = "QGISRunner" /\ pc' = "run_call" /\ UNCHANGED exc
       ELSE exc' = ctor_fault /\ pc' = "ctor_raised" /\ UNCHANGED runner
    /\ UNCHANGED <<idleVars, runInputs, aborted, progress, calls, load_exc, raised,
                   run_ret, task_ret, task_error, load_calls, saved_data,
                   message, task_no, last_raised>>

\* lines 79-96: the check of the mode and the first progress value
RunStart ==
    /\ pc = "run_call"
    /\ IF workflow_mode \notin Modes
       THEN /\ exc' = "ProviderError"
            /\ raised' = "ProviderError"
            /\ pc' = "run_raised"
            /\ UNCHANGED progress
       ELSE /\ progress' = Append(progress, StartProgress(workflow_mode))
            /\ pc' = "run_load"
            /\ UNCHANGED <<exc, raised>>
    /\ UNCHANGED <<idleVars, runInputs, taskVars, aborted, calls, load_exc, run_ret,
                   task_ret, task_error,
                   load_calls, saved_data>>

\* lines 98-106 with base lines 269-293: provider.load and what follows it
RunLoad ==
    /\ pc = "run_load"
    /\ calls' = Append(calls, "load")
    /\ load_exc' = LeavesLoad(workflow_mode, load_fault, invalid_is_error)
    /\ load_calls' = LoadCalls(workflow_mode, load_fault, invalid_is_error)
    /\ saved_data' = SavedData(workflow_mode, load_fault, invalid_is_error)
    /\ IF load_exc' = "none"
       THEN /\ IF workflow_mode = "dpre"
               THEN run_ret' = "None" /\ pc' = "run_returned"
               ELSE pc' = "run_runoff" /\ UNCHANGED run_ret
            /\ UNCHANGED <<exc, raised>>
       ELSE IF IsA(load_exc', "DataPreparationInvalidInput", invalid_is_error)
       THEN /\ run_ret' = "1"
            /\ pc' = "run_returned"
            /\ UNCHANGED <<exc, raised>>
       ELSE /\ exc' = load_exc'
            /\ raised' = load_exc'
            /\ pc' = "run_raised"
            /\ UNCHANGED run_ret
    /\ UNCHANGED <<idleVars, runInputs, taskVars, aborted, progress, task_ret, task_error>>

\* lines 108-114: the progress value of the computation and the Runoff object
RunoffConstruct ==
    /\ pc = "run_runoff"
    /\ progress' = Append(progress, 95)
    /\ calls' = Append(calls, "Runoff")
    /\ pc' = "run_loop"
    /\ UNCHANGED <<exc, idleVars, runInputs, taskVars, aborted, load_exc, raised, run_ret,
                   task_ret, task_error,
                   load_calls, saved_data>>

\* line 115: runoff.run()
RunoffRun ==
    /\ pc = "run_loop"
    /\ IF RunoffRaises(aborted, runoff_fault) = "none"
       THEN /\ calls' = calls \o <<"runoff.run", "runoff.run returned">>
            /\ pc' = "run_save"
            /\ UNCHANGED <<exc, raised>>
       ELSE /\ calls' = Append(calls, "runoff.run")
            /\ exc' = RunoffRaises(aborted, runoff_fault)
            /\ raised' = exc'
            /\ pc' = "run_raised"
    /\ UNCHANGED <<idleVars, runInputs, taskVars, aborted, progress, load_exc, run_ret,
                   task_ret, task_error,
                   load_calls, saved_data>>

\* lines 117-125: the last progress value, save_output and the return
RunSave ==
    /\ pc = "run_save"
    /\ progress' = Append(progress, 100)
    /\ calls' = Append(calls, "save_output")
    /\ IF save_fault = "none"
       THEN /\ run_ret' = "0"
            /\ pc' = "run_returned"
            /\ UNCHANGED <<exc, raised>>
       ELSE /\ exc' = save_fault
            /\ raised' = save_fault
            /\ pc' = "run_raised"
            /\ UNCHANGED run_ret
    /\ UNCHANGED <<idleVars, runInputs, taskVars, aborted, load_exc, task_ret, task_error,
                   load_calls, saved_data>>

\* dockwidget line 100: Runner.run returned
TaskReturn ==
    /\ pc = "run_returned"
    /\ task_ret' = "True"
    /\ pc' = "task_done"
    /\ UNCHANGED <<exc, idleVars, runInputs, taskVars, aborted, progress, calls, load_exc,
                   raised, run_ret, task_error,
                   load_calls, saved_data>>

\* dockwidget lines 91-98: one of the two handlers takes the exception
TaskExcept ==
    /\ pc \in {"run_raised", "ctor_raised"}
    /\ Handled(exc, invalid_is_error)
    /\ task_error' = TaskError(exc, invalid_is_error)
    /\ task_ret' = "False"
    /\ exc' = "none"
    /\ pc' = "task_done"
    /\ UNCHANGED <<idleVars, runInputs, taskVars, aborted, progress, calls, load_exc,
                   raised, run_ret,
                   load_calls, saved_data>>

\* dockwidget lines 85-98: no handler takes the exception, it leaves the task
TaskEscape ==
    /\ pc \in {"run_raised", "ctor_raised"}
    /\ ~Handled(exc, invalid_is_error)
    /\ pc' = "task_escaped"
    /\ UNCHANGED <<exc, idleVars, runVars>>

\* dockwidget lines 971-982: abort_computation while the task is in the
\* task manager
AbortComputation ==
    /\ pc \in {"run_call", "run_load", "run_runoff", "run_loop", "run_save"}
    /\ ~aborted
    /\ aborted' = TRUE
    /\ UNCHANGED <<pc, exc, idleVars, runInputs, taskVars, progress, calls, load_exc,
                   raised, run_ret, task_ret, task_error,
                   load_calls, saved_data>>

\* the message finished pushes for a task that did not succeed
FailMessage(err) ==
    <<"Computation failed: ",
      IF err # "None" THEN err ELSE "reason unknown (see SMODERP2D log messages)">>

\* dockwidget lines 102-131: finished(result).  Line 107 calls
\* self.runner.finish() before anything else.
TaskFinished ==
    /\ pc \in {"task_done", "task_escaped"}
    /\ IF runner = "None" \/ "finish" \notin RunnerMethods
       THEN /\ exc' = "AttributeError"
            /\ pc' = "finished_raised"
            /\ UNCHANGED message
       ELSE /\ message' = IF task_ret = "True"
                          THEN <<"Computation successfully completed", "">>
                          ELSE FailMessage(task_error)
            /\ pc' = "finished_done"
            /\ UNCHANGED exc
    /\ UNCHANGED <<idleVars, runInputs, aborted, progress, calls, load_exc, raised,
                   run_ret, task_ret, task_error, load_calls, saved_data,
                   runner, task_no, last_raised>>

\* dockwidget lines 431-490: OnRunButton builds a new task and adds it to the
\* task manager
OnRunButton ==
    /\ pc \in {"finished_done", "finished_raised"}
    /\ task_no < MaxTasks
    /\ task_no' = task_no + 1
    /\ last_raised' = raised
    /\ runner' = "None"
    /\ task_error' = "None"
    /\ task_ret' = "unset"
    /\ message' = <<>>
    /\ progress' = <<>>
    /\ calls' = <<>>
    /\ load_calls' = <<>>
    /\ saved_data' = {}
    /\ load_exc' = "none"
    /\ raised' = "none"
    /\ run_ret' = "unset"
    /\ exc' = "none"
    /\ pc' = "task_call"
    /\ UNCHANGED <<idleVars, runInputs, aborted>>

NextRun ==
    \/ TaskRun
    \/ RunStart
    \/ RunLoad
    \/ RunoffConstruct
    \/ RunoffRun
    \/ RunSave
    \/ TaskReturn
    \/ TaskExcept
    \/ TaskEscape
    \/ AbortComputation
    \/ TaskFinished
    \/ OnRunButton

SpecRun == InitRun /\ [][NextRun]_vars

\* -------------------------------------------------------- the run: properties
\* whether the call is among the calls made
Called(name) == \E i \in 1..Len(calls) : calls[i] = name

\* C17: when ComputationAborted leaves Runner.run, save_output has not been
\* called, and the task returns False with the message that the computation
\* was manually aborted.
C17_AbortSkipsSave ==
    raised = "ComputationAborted" =>
        /\ ~Called("save_output")
        /\ run_ret = "unset"
        /\ pc # "task_escaped"
        /\ pc = "task_done" => task_ret = "False" /\ task_error = AbortedMsg

\* C17 witness: a task that was aborted after the Runoff object was built
\* has ended.
C17_Witness ==
    /\ pc = "task_done"
    /\ raised = "ComputationAborted"
    /\ aborted
    /\ Called("runoff.run")

\* C18: in each mode the progress values set during one Runner.run never
\* decrease and lie in 0..100; 100 is set at most once, and in the modes
\* roff and full only after the runoff computation has returned.
C18_ProgressMonotone ==
    /\ \A i \in 1..Len(progress) : progress[i] \in 0..100
    /\ \A i, j \in 1..Len(progress) : i < j => progress[i] <= progress[j]
    /\ Cardinality({ i \in 1..Len(progress) : progress[i] = 100 }) <= 1
    /\ \A i \in 1..Len(progress) :
        (progress[i] = 100 /\ workflow_mode \in {"roff", "full"})
            => /\ Called("runoff.run returned")
               /\ i = Len(progress)
               /\ i > 1

\* C18 witness: a run in the mode full has returned 0 after three progress
\* values.
C18_Witness ==
    /\ pc = "task_done"
    /\ workflow_mode = "full"
    /\ run_ret = "0"
    /\ progress = <<40, 95, 100>>

\* C19: every exception that leaves Runner.run (ProviderError,
\* ComputationAborted, NegativeWaterLevel, the reach table's SmoderpError)
\* ends SmoderpTask.run with the return value False and self.error set; none
\* leaves the task.
C19_EveryFailureReported ==
    raised # "none" =>
        /\ pc # "task_escaped"
        /\ pc = "task_done" => task_ret = "False" /\ task_error # "None"

\* the loading fails: it raises something that load lets out or converts
LoadFails ==
    \/ /\ workflow_mode \in {"dpre", "full"}
       /\ load_fault \in {"DataPreparationInvalidInput", "DataPreparationError"}
    \/ workflow_mode = "roff" /\ load_fault = "ProviderError"

\* C20: a mode that is none of dpre, roff and full makes Runner.run raise
\* ProviderError before provider.load is called; when the loading fails,
\* load either lets DataPreparationInvalidInput out, and Runner.run returns
\* 1, or raises ProviderError, which leaves Runner.run, and in both cases
\* Runoff is never constructed or run and save_output is never called.
C20_LoadFailureStopsRun ==
    /\ (workflow_mode \notin Modes /\ runner # "None" /\ pc # "run_call") =>
            /\ raised = "ProviderError"
            /\ calls = <<>>
            /\ progress = <<>>
    /\ (LoadFails /\ Called("load")) =>
            /\ calls = <<"load">>
            /\ \/ load_exc = "DataPreparationInvalidInput" /\ run_ret = "1"
                    /\ raised = "none"
               \/ load_exc = "ProviderError" /\ raised = "ProviderError"
                    /\ run_ret = "unset"
            /\ load_fault = "DataPreparationError" => load_exc = "ProviderError"

\* C20 witness: a task in the mode full whose data preparation raised
\* DataPreparationError has ended with the ProviderError.
C20_Witness ==
    /\ pc = "task_done"
    /\ workflow_mode = "full"
    /\ load_fault = "DataPreparationError"
    /\ task_error = "ProviderError"
    /\ task_ret = "False"

\* whether provider.load has made the call
LoadCalled(name) == \E i \in 1..Len(load_calls) : load_calls[i] = name

\* C21: in the mode dpre a run prepares the data, saves them with the
\* GridGlobals fields added, and stops: _set_globals is never called, Runoff
\* is never constructed or run, save_output is never called; in the mode full
\* the data preparation is followed by _set_globals and then by the runoff
\* computation.
C21_DpreStopsAfterSave ==
    /\ workflow_mode = "dpre" =>
            /\ ~LoadCalled("_set_globals")
            /\ ~Called("Runoff")
            /\ ~Called("runoff.run")
            /\ ~Called("save_output")
            /\ (Called("load") /\ load_exc = "none") =>
                    /\ load_calls = <<"_cleanup", "_load_dpre", "_save_data">>
                    /\ saved_data = PreparedKeys \cup GridGlobalsKeys
                    /\ run_ret = "None"
                    /\ raised = "none"
    /\ (workflow_mode = "full" /\ Called("runoff.run")) =>
            /\ load_calls = <<"_cleanup", "_load_dpre", "_set_globals">>
            /\ SubSeq(calls, 1, 3) = <<"load", "Runoff", "runoff.run">>
    /\ workflow_mode # "dpre" => saved_data = {}

\* C21 witness: a run in the mode dpre has saved its data and its task has
\* returned.
C21_Witness ==
    /\ pc = "task_done"
    /\ workflow_mode = "dpre"
    /\ task_ret = "True"
    /\ "pixel_area" \in saved_data

\* C22: in the mode roff, when the data file holds a list or cannot be read,
\* ProviderError leaves load and Runner.run, and _set_globals is not called.
C22_RoffLoadFailsExplicitly ==
    (workflow_mode = "roff" /\ load_fault \in {"list", "IOError"} /\ Called("load")) =>
        /\ load_exc = "ProviderError"
        /\ raised = "ProviderError"
        /\ ~LoadCalled("_set_globals")

\* ------------------------------------------------- _make_mask: properties
\* C27: when a run that was aborted through abort_computation has finished,
\* Logger.aborted is cleared before the next task started by OnRunButton
\* begins its computation.
C27_AbortFlagCleared ==
    (task_no > 1 /\ pc = "task_call" /\ last_raised = "ComputationAborted") =>
        ~aborted

\* C29: finished completes for every way run() can end, the failure in the
\* QGISRunner constructor included, and pushes the failure message of a task
\* that did not succeed; it never uses a runner that was not created.
C29_FinishedCompletes ==
    /\ pc # "finished_raised"
    /\ (pc = "finished_done" /\ task_ret # "True") =>
           message = FailMessage(task_error)

\* C23: the grid _make_mask returns holds the sentinel at every cell outside
\* the region and, at every cell of the region, the value the cell had
\* before the call; masking the result again changes nothing.
C23_MaskKeepsRegion ==
    Len(rasters) >= 1 =>
        \A f \in Fields :
            /\ \A c \in Cells :
                cumulative[f][c] =
                    IF c \in active THEN cum_in[f][c] ELSE NoDataValue
            /\ MakeMask(cumulative[f], active) = cumulative[f]
            /\ MakeMask(MakeMask(cum_in[f], active), active)
                    = MakeMask(cum_in[f], active)

\* C23 witness: the grids have been masked twice, and a grid held a value
\* other than 0 inside the region and one outside it.
C23_Witness ==
    /\ Len(rasters) = 2
    /\ \E f \in Fields :
        /\ \E c \in active : cum_in[f][c] # 0 /\ cumulative[f][c] = cum_in[f][c]
        /\ \E c \in Cells \ active :
            cum_in[f][c] # 0 /\ cumulative[f][c] = NoDataValue

\* ======================================================= the global state
\* the members of CompType that _comp_type tells apart
CompTypes == {"sheet_only", "rill", "stream_rill", "subflow_rill",
              "stream_subflow_rill"}

\* base lines 355-390: _comp_type.  The six keys of the loop start False;
\* the branches set the keys sheet_only, rill, stream and subflow.
CompTypeRet(itc) ==
    [sheet_only |-> itc = "sheet_only",
     rill |-> itc \in {"rill", "stream_rill", "subflow_rill", "stream_subflow_rill"},
     sheet_stream |-> FALSE,
     stream_rill |-> FALSE,
     subflow_rill |-> FALSE,
     stream_subflow_rill |-> FALSE,
     stream |-> itc \in {"stream_rill", "stream_subflow_rill"},
     subflow |-> itc \in {"subflow_rill", "stream_subflow_rill"}]

\* base lines 240-241 and nogis line 168: data['end_time'] as the provider
\* loads it from the configured minutes
LoadedEndTime(prov, minutes) == IF prov = "nogis" THEN minutes * 60 ELSE minutes

\* base lines 300-303 and 317: the item is set when the field is None, and
\* the field is then multiplied by 60
SetEndTime(g, d) == <<(IF g = <<>> THEN d ELSE g[1]) * 60>>

\* a run to load: the NoGis provider fixes the type of computing (nogis
\* line 164)
RunConfigs ==
    { c \in [prov : {"base", "nogis"}, minutes : 1..MaxEndTime, type : CompTypes] :
        c.prov = "nogis" => c.type = "rill" }

InitGlob ==
    /\ IdleInf
    /\ IdlePost
    /\ IdleCrit
    /\ IdlePhil
    /\ IdleComb
    /\ IdleRun
    /\ IdleRows
    /\ pc = "glob_load"
    /\ exc = "none"
    /\ \E c \in RunConfigs :
        /\ glob_provider = c.prov
        /\ cfg_end_time = c.minutes
        /\ cfg_type = c.type
    /\ glob_run = 1
    /\ data = <<>>
    /\ Globals_end_time = <<>>
    /\ Globals_subflow = "None"
    /\ Globals_isRill = "None"
    /\ Globals_isStream = "None"

\* the groups of the other operations
nonGlobVars == <<infVars, postVars, critVars, philVars, combVars, runVars, rowVars>>

\* base lines 219-267 and nogis lines 150-262: the provider builds data
GlobLoad ==
    /\ pc = "glob_load"
    /\ data' = [end_time |-> LoadedEndTime(glob_provider, cfg_end_time),
                type_of_computing |-> cfg_type]
    /\ pc' = "glob_set"
    /\ UNCHANGED <<exc, nonGlobVars, glob_provider, glob_run, cfg_end_time, cfg_type,
                   Globals_end_time, Globals_subflow, Globals_isRill, Globals_isStream>>

\* base lines 295-332: _set_globals
SetGlobals ==
    /\ pc = "glob_set"
    /\ Globals_end_time' = SetEndTime(Globals_end_time, data.end_time)
    /\ Globals_subflow' = CompTypeRet(data.type_of_computing).subflow_rill
    /\ Globals_isRill' = CompTypeRet(data.type_of_computing).rill
    /\ Globals_isStream' = CompTypeRet(data.type_of_computing).stream_rill
    /\ pc' = "glob_done"
    /\ UNCHANGED <<exc, nonGlobVars, glob_provider, glob_run, cfg_end_time, cfg_type, data>>

\* the next run of the process: a new provider with a new configuration.
\* Nothing between two runs writes Globals.
GlobNextRun ==
    /\ pc = "glob_done"
    /\ glob_run < MaxGlobRuns
    /\ \E c \in RunConfigs :
        /\ glob_provider' = c.prov
        /\ cfg_end_time' = c.minutes
        /\ cfg_type' = c.type
    /\ glob_run' = glob_run + 1
    /\ data' = <<>>
    /\ pc' = "glob_load"
    /\ UNCHANGED <<exc, nonGlobVars, Globals_end_time, Globals_subflow, Globals_isRill,
                   Globals_isStream>>

NextGlob == GlobLoad \/ SetGlobals \/ GlobNextRun

SpecGlob == InitGlob /\ [][NextGlob]_vars

\* ------------------------------------------------ the global state: properties
\* C24: after load Globals.end_time is the configured end time in minutes
\* times 60, on the base roff path and on the NoGis path.
C24_EndTimeConvertedOnce ==
    (pc = "glob_done" /\ glob_run = 1) => Globals_end_time = <<cfg_end_time * 60>>

\* C25: after the _set_globals of a second run in the same process,
\* Globals.end_time is derived from the second run's data.
C25_GlobalsOfSecondRun ==
    (pc = "glob_done" /\ glob_run = 2) => Globals_end_time = <<data.end_time * 60>>

\* C26: Globals.isStream is true exactly for the types stream_rill and
\* stream_subflow_rill, Globals.subflow exactly for subflow_rill and
\* stream_subflow_rill, and Globals.isRill exactly for the types other than
\* sheet_only.
C26_ComponentFlags ==
    pc = "glob_done" =>
        /\ Globals_isStream = (cfg_type \in {"stream_rill", "stream_subflow_rill"})
        /\ Globals_subflow = (cfg_type \in {"subflow_rill", "stream_subflow_rill"})
        /\ Globals_isRill = (cfg_type # "sheet_only")


\* ============================================================== slope rows
\* NoGisProvider._load_nogis lines 188-203: the number of rows of the slope
\* grid from _compute_rows, then the profile divided into pixels by
\* _divide_joint_data.  Lengths are whole metres and each segment has a whole
\* slope length, so the square root of line 286 is exact.

\* the segments whose slope length is a whole number
Segments ==
    {sg \in (1..MaxLength) \X (0..MaxHeight) :
        \E n \in 1..(MaxLength + MaxHeight) : n * n = sg[1] * sg[1] + sg[2] * sg[2]}

\* the slope profiles: one to MaxSegments segments
Profiles == UNION {[1..n -> Segments] : n \in 1..MaxSegments}

\* lines 278-289: _compute_slope_length of one segment
SegmentLength(sg) ==
    CHOOSE n \in 1..(MaxLength + MaxHeight) : n * n = sg[1] * sg[1] + sg[2] * sg[2]

\* lines 278-289: _compute_slope_length of a profile, the sum over its rows
RECURSIVE SumLengths(_, _)
SumLengths(jd, i) ==
    IF i > Len(jd) THEN 0 ELSE SegmentLength(jd[i]) + SumLengths(jd, i + 1)

ComputeSlopeLength(jd) == SumLengths(jd, 1)

\* round(n / d) of Python 3: to the nearest whole number, a half to the even
\* one
Round(n, d) ==
    LET q == n \div d
        twice == 2 * (n % d)
    IN  IF twice < d THEN q
        ELSE IF twice > d THEN q + 1
        ELSE IF q % 2 = 0 THEN q ELSE q + 1

\* lines 264-276: _compute_rows
ComputeRows(jd, rs) == Round(ComputeSlopeLength(jd), rs)

\* lines 306-308: one_pix_len = res + (slope_length % r) / r, in units of
\* 1 / r
OnePixLen(jd, rows, rs) == rs * rows + (ComputeSlopeLength(jd) % rows)

InitRows ==
    /\ IdleInf
    /\ IdlePost
    /\ IdleCrit
    /\ IdlePhil
    /\ IdleComb
    /\ IdleRun
    /\ IdleGlob
    /\ pc = "rows_call"
    /\ exc = "none"
    /\ joint_data \in Profiles
    /\ resolution \in 1..MaxRes
    /\ nr_of_rows = <<>>
    /\ parsed_data = <<>>
    /\ segment_no = 0
    /\ subsegment_unseen = 0

nonRowVars == <<infVars, postVars, critVars, philVars, combVars, runVars, globVars>>

\* lines 188-192: data['r'] = _compute_rows(lengths, heights, resolution)
LoadComputeRows ==
    /\ pc = "rows_call"
    /\ nr_of_rows' = <<ComputeRows(joint_data, resolution)>>
    /\ pc' = "divide_call"
    /\ UNCHANGED <<exc, nonRowVars, joint_data, resolution, parsed_data, segment_no,
                   subsegment_unseen>>

\* lines 299-310: _divide_joint_data up to the loop over the segments.  With
\* r = 0 the remainder of line 306 is not a number, no comparison of line 323
\* holds and the call returns without an entry.
DivideEnter ==
    /\ pc = "divide_call"
    /\ IF nr_of_rows[1] = 0
       THEN pc' = "divide_returned" /\ UNCHANGED <<segment_no, subsegment_unseen>>
       ELSE /\ segment_no' = 1
            /\ subsegment_unseen' = SegmentLength(joint_data[1]) * nr_of_rows[1]
            /\ pc' = "divide_while"
    /\ UNCHANGED <<exc, nonRowVars, joint_data, resolution, nr_of_rows, parsed_data>>

\* lines 323-330: one turn of the while loop appends the entry of the segment
DivideAppend ==
    /\ pc = "divide_while"
    /\ 2 * subsegment_unseen >= OnePixLen(joint_data, nr_of_rows[1], resolution)
    /\ parsed_data' = Append(parsed_data, segment_no)
    /\ subsegment_unseen' =
            subsegment_unseen - OnePixLen(joint_data, nr_of_rows[1], resolution)
    /\ UNCHANGED <<pc, exc, nonRowVars, joint_data, resolution, nr_of_rows, segment_no>>

\* lines 310-321: the while loop is left, the next segment is taken
DivideNextSegment ==
    /\ pc = "divide_while"
    /\ 2 * subsegment_unseen < OnePixLen(joint_data, nr_of_rows[1], resolution)
    /\ segment_no < Len(joint_data)
    /\ segment_no' = segment_no + 1
    /\ subsegment_unseen' =
            subsegment_unseen + SegmentLength(joint_data[segment_no + 1]) * nr_of_rows[1]
    /\ UNCHANGED <<pc, exc, nonRowVars, joint_data, resolution, nr_of_rows, parsed_data>>

\* line 332: return parsed_data
DivideReturn ==
    /\ pc = "divide_while"
    /\ 2 * subsegment_unseen < OnePixLen(joint_data, nr_of_rows[1], resolution)
    /\ segment_no = Len(joint_data)
    /\ pc' = "divide_returned"
    /\ UNCHANGED <<exc, nonRowVars, rowVars>>

NextRows ==
    \/ LoadComputeRows
    \/ DivideEnter
    \/ DivideAppend
    \/ DivideNextSegment
    \/ DivideReturn

SpecRows == InitRows /\ [][NextRows]_vars

\* C30: for every slope profile and pixel resolution, _divide_joint_data
\* returns exactly r pixel entries, r being the number of rows _compute_rows
\* returned.
C30_OneEntryPerRow ==
    pc = "divide_returned" => Len(parsed_data) = nr_of_rows[1]

=============================================================================
